---------------------------- MODULE Spec2Model ----------------------------
(***************************************************************************)
(* Model of the earthquake detector (src/src/earthquake_detector.py,       *)
(* src/src/filters.py, src/src/config.py, src/src/utils.py).               *)
(*                                                                         *)
(* Number representation.  Every real-valued quantity r of the program is  *)
(* held as the integer r * 1000 (three decimals):                          *)
(*   accelerations in milli-g, seconds in milliseconds, frequencies in     *)
(*   milli-Hz, the STA/LTA threshold in thousandths.                       *)
(* sample_rate and filter_order are Python ints and are held as such.      *)
(* Quotients that the program compares but never rounds (the STA/LTA       *)
(* ratios, pga_magnitude) are kept exact: a ratio is a fraction, and       *)
(* pga_magnitude = sqrt(s) is kept as its square s.                        *)
(***************************************************************************)
EXTENDS Integers, Sequences, FiniteSets, TLC

(***************************************************************************)
(* Bounds of the model.                                                    *)
(***************************************************************************)
MaxCalls == 2

(***************************************************************************)
(* A nullable value is a sequence of at most one element: None is the      *)
(* empty sequence, Some(v) holds v.                                        *)
(***************************************************************************)
None == << >>

Some(v) == <<v>>

\* One unit of a real-valued quantity is 1/Scale.
Scale == 10 * 100

\* The filter works internally on signals held in units of 1/(Scale*SigScale).
SigScale == 10 * 10

\* 1e-10 (the floor of the long-term average) is 1/EpsInv units of 1/Scale.
EpsInv == 10000 * Scale

(***************************************************************************)
(* Arithmetic helpers.                                                     *)
(***************************************************************************)
Abs(v) == IF v < 0 THEN -v ELSE v

\* int(num / den) of Python: truncation toward zero.
PyInt(num, den) == IF num >= 0 THEN num \div den ELSE -((-num) \div den)

\* num / den rounded to the nearest integer (halves away from zero).
RoundDiv(num, den) ==
    IF num >= 0 THEN (2 * num + den) \div (2 * den)
    ELSE -((2 * (-num) + den) \div (2 * den))

Range(s) == {s[i] : i \in DOMAIN s}

SetMax(S) == CHOOSE m \in S : \A v \in S : v <= m

Reverse(s) == [i \in 1..Len(s) |-> s[Len(s) + 1 - i]]

Sum(s) == LET RECURSIVE acc(_)
              acc(i) == IF i = 0 THEN 0 ELSE s[i] + acc(i - 1)
          IN acc(Len(s))

(***************************************************************************)
(* scipy.signal.butter(order, [low, high], btype='band'), filters.py:33.   *)
(* low and high are the normalised cutoffs in thousandths.  The design     *)
(* raises ValueError unless 0 < low < high < 1; a successful design of     *)
(* order n has 2n+1 numerator and denominator coefficients.  Coefficients  *)
(* are in thousandths (a[1] = Scale) and are tabulated for the designs of  *)
(* Configs: bilinear transform of the analog band-pass bw*s/(s^2+bw*s+wo^2)*)
(* with pre-warped edges 4*tan(pi*Wn/2).                                   *)
(***************************************************************************)
butter_raises(order, low, high) ==
    \/ order < 1
    \/ low <= 0
    \/ high >= Scale
    \/ low >= high

\* the band-stop designs of the same bands (btype='bandstop')
butter_bandstop(order, low, high) ==
    CASE order = 1 /\ low = 250 /\ high = 500 ->
           [b |-> <<707, -586, 707>>, a |-> <<1000, -586, 414>>]
      [] order = 1 /\ low = 125 /\ high = 500 ->
           [b |-> <<599, -801, 599>>, a |-> <<1000, -801, 199>>]
      [] order = 1 /\ low = 9 /\ high = 96 ->
           [b |-> <<880, -1751, 880>>, a |-> <<1000, -1751, 759>>]

butter(order, low, high) ==
    CASE order = 1 /\ low = 250 /\ high = 500 ->
           [b |-> <<293, 0, -293>>, a |-> <<1000, -586, 414>>]
      [] order = 1 /\ low = 125 /\ high = 500 ->
           [b |-> <<401, 0, -401>>, a |-> <<1000, -801, 199>>]
      \* 0.5-5 Hz at 104 Hz: Wn = (0.5/52, 5/52)
      [] order = 1 /\ low = 9 /\ high = 96 ->
           [b |-> <<120, 0, -120>>, a |-> <<1000, -1751, 759>>]

(***************************************************************************)
(* scipy.signal.filtfilt(b, a, data), filters.py:34: forward-backward      *)
(* filtering with odd extension of padlen = 3*max(len(a), len(b)) samples  *)
(* at both ends and steady-state initial conditions (lfilter_zi).  It      *)
(* raises ValueError when len(data) <= padlen.                             *)
(***************************************************************************)
padlen(b, a) == 3 * (IF Len(a) > Len(b) THEN Len(a) ELSE Len(b))

filtfilt_raises(b, a, x) == Len(x) <= padlen(b, a)

\* odd_ext(x, n): n reflected samples, mirrored about the end points.
odd_ext(x, n) ==
    LET N == Len(x)
    IN [i \in 1..(N + 2 * n) |->
          IF i <= n THEN 2 * x[1] - x[n + 2 - i]
          ELSE IF i <= n + N THEN x[i - n]
          ELSE 2 * x[N] - x[2 * N + n - i]]

\* lfilter_zi(b, a): the filter state of the steady step response.
lfilter_zi(b, a) ==
    LET K == Len(a)
        Gnum == Sum(b)
        Gden == Sum(a)
        RECURSIVE tail(_)
        tail(j) == IF j > K THEN 0
                   ELSE (b[j] * Gden - a[j] * Gnum) + tail(j + 1)
    IN [i \in 1..(K - 1) |-> RoundDiv(tail(i + 1), Gden)]

\* lfilter(b, a, x, zi): direct form II transposed difference equation.
\* lfilter_span runs it over x[lo..hi] from the state z and gives the
\* outputs and the state left behind; a span is run as two halves.
RECURSIVE lfilter_span(_, _, _, _, _, _)
lfilter_span(b, a, x, lo, hi, z) ==
    LET K == Len(a)
    IN IF lo > hi THEN [y |-> << >>, z |-> z]
       ELSE IF lo = hi
       THEN LET y == RoundDiv(b[1] * x[lo] + z[1], a[1])
            IN [y |-> <<y>>,
                z |-> [i \in 1..(K - 1) |->
                         b[i + 1] * x[lo] - a[i + 1] * y
                         + (IF i < K - 1 THEN z[i + 1] ELSE 0)]]
       ELSE LET mid == (lo + hi) \div 2
                L   == CHOOSE r \in {lfilter_span(b, a, x, lo, mid, z)} : TRUE
                R   == CHOOSE r \in {lfilter_span(b, a, x, mid + 1, hi, L.z)} : TRUE
            IN [y |-> L.y \o R.y, z |-> R.z]

lfilter(b, a, x, zi) == lfilter_span(b, a, x, 1, Len(x), zi).y

\* a forward-backward filter that returns the padded signal
filtfilt_padded(b, a, x) ==
    LET edge == padlen(b, a)
        ext  == odd_ext([i \in 1..Len(x) |-> x[i] * SigScale], edge)
        zi   == lfilter_zi(b, a)
        fwd  == lfilter(b, a, ext, [i \in DOMAIN zi |-> zi[i] * ext[1]])
        y0   == fwd[Len(fwd)]
        bwd  == lfilter(b, a, Reverse(fwd), [i \in DOMAIN zi |-> zi[i] * y0])
        y    == Reverse(bwd)
    IN [i \in 1..Len(y) |-> RoundDiv(y[i], SigScale)]

filtfilt(b, a, x) ==
    LET edge == padlen(b, a)
        ext  == odd_ext([i \in 1..Len(x) |-> x[i] * SigScale], edge)
        zi   == lfilter_zi(b, a)
        fwd  == lfilter(b, a, ext, [i \in DOMAIN zi |-> zi[i] * ext[1]])
        y0   == fwd[Len(fwd)]
        bwd  == lfilter(b, a, Reverse(fwd), [i \in DOMAIN zi |-> zi[i] * y0])
        y    == Reverse(bwd)
    IN [i \in 1..Len(x) |-> RoundDiv(y[i + edge], SigScale)]

(***************************************************************************)
(* apply_bandpass_filter, filters.py:13-38.  Any exception of the design   *)
(* or of the filtering is caught and the input is returned unchanged.      *)
(***************************************************************************)
\* the try block raises: division by a zero Nyquist frequency, a design
\* that butter rejects, or a signal too short for filtfilt
apply_bandpass_filter_raises(data, sample_rate, low_cut, high_cut, order) ==
    \/ sample_rate = 0
    \/ LET nyquist == sample_rate * (Scale \div 2)
           low     == (low_cut * Scale) \div nyquist
           high    == (high_cut * Scale) \div nyquist
       IN \/ butter_raises(order, low, high)
          \/ LET ba == butter(order, low, high)
             IN filtfilt_raises(ba.b, ba.a, data)

apply_bandpass_filter(data, sample_rate, low_cut, high_cut, order) ==
    IF apply_bandpass_filter_raises(data, sample_rate, low_cut, high_cut, order)
    THEN data                                                   \* line 38
    ELSE LET nyquist == sample_rate * (Scale \div 2)
             low     == (low_cut * Scale) \div nyquist
             high    == (high_cut * Scale) \div nyquist
             ba      == butter(order, low, high)
         IN filtfilt(ba.b, ba.a, data)

(***************************************************************************)
(* Ratios.  A value of the STA/LTA series is the fraction num/den, or,     *)
(* when the long-term average was floored to 1e-10, (num/den) * EpsInv.    *)
(* GtFrac and GtRatio compare exactly without forming large products.      *)
(***************************************************************************)
RECURSIVE GtFrac(_, _, _, _)
GtFrac(a, b, c, d) ==                     \* a/b > c/d, for a, c >= 0 < b, d
    LET q1 == a \div b
        q2 == c \div d
        r1 == a % b
        r2 == c % d
    IN IF q1 # q2 THEN q1 > q2
       ELSE IF r1 = 0 THEN FALSE
       ELSE IF r2 = 0 THEN TRUE
       ELSE GtFrac(d, r2, b, r1)

GtRatio(r, s) ==
    CASE r.floored = s.floored -> GtFrac(r.num, r.den, s.num, s.den)
      [] r.floored /\ ~s.floored ->
           /\ r.num > 0
           /\ EpsInv > ((s.num * r.den) \div r.num) \div s.den
      [] ~r.floored /\ s.floored ->
           IF s.num = 0 THEN r.num > 0
           ELSE r.num > 0 /\ (((r.num * s.den - 1) \div s.num) \div r.den) >= EpsInv

\* np.max of a non-empty series of ratios.
MaxRatio(rs) == CHOOSE m \in Range(rs) : \A v \in Range(rs) : ~GtRatio(v, m)

\* A real number held in thousandths, as a ratio.
AsRatio(t) == [num |-> t, den |-> Scale, floored |-> FALSE]

\* sqrt(sq) > t, for the square sq of a magnitude.
SqrtGt(sq, t) == t < 0 \/ sq > t * t

(***************************************************************************)
(* np.convolve(np.abs(data), np.ones(window)/window, mode='same'),         *)
(* earthquake_detector.py:148 and :151.  The result has the length of the  *)
(* longer argument (numpy swaps the arguments when the kernel is longer),  *)
(* element i is the sum of the samples under the window, centred with      *)
(* n_left = n \div 2 of the shorter length n, zero beyond the bounds.  The *)
(* result is the series of window sums; the divisor is the window.         *)
(***************************************************************************)
convolve_raises(data, window) == Len(data) = 0 \/ window <= 0

\* a moving sum over the window that ends at the sample (not centred)
convolve_same_trailing(data, window) ==
    LET N == Len(data)
        d == [i \in 1..N |-> Abs(data[i])]
        RECURSIVE span(_, _)
        span(lo, hi) == IF lo > hi THEN 0 ELSE d[lo] + span(lo + 1, hi)
    IN [i \in 1..(IF window <= N THEN N ELSE window) |->
          span((IF i - window + 1 > 1 THEN i - window + 1 ELSE 1),
               (IF i < N THEN i ELSE N))]

convolve_same(data, window) ==
    LET N == Len(data)
        d == [i \in 1..N |-> Abs(data[i])]
        RECURSIVE span(_, _)
        span(lo, hi) == IF lo > hi THEN 0 ELSE d[lo] + span(lo + 1, hi)
        Max2(u, v) == IF u > v THEN u ELSE v
        Min2(u, v) == IF u < v THEN u ELSE v
    IN IF window <= N
       THEN [i \in 1..N |->
               span(Max2(1, i - (window \div 2)),
                    Min2(N, i + window - 1 - (window \div 2)))]
       ELSE [i \in 1..window |->
               \* kernel index i-1+j-(N \div 2) must lie in 0..window-1,
               \* it meets the reversed sample j, i.e. sample N-1-j
               span(Max2(1, N - Min2(N - 1, (N \div 2) - (i - 1) + window - 1)),
                    Min2(N, N - Max2(0, (N \div 2) - (i - 1))))]

(***************************************************************************)
(* _calculate_sta_lta, earthquake_detector.py:135-156.                     *)
(* sta / lta broadcasts: the lengths must agree unless one of them is 1.   *)
(***************************************************************************)
_calculate_sta_lta_raises(data, sta_window, lta_window) ==
    \/ convolve_raises(data, sta_window)
    \/ convolve_raises(data, lta_window)
    \/ LET ls == Len(convolve_same(data, sta_window))
           ll == Len(convolve_same(data, lta_window))
       IN ls # ll /\ ls # 1 /\ ll # 1

\* kernels np.ones(window) without the division by window: a ratio of sums
_calculate_sta_lta_sums(data, sta_window, lta_window) ==
    LET sta == convolve_same(data, sta_window)
        lta == convolve_same(data, lta_window)
        n   == IF Len(sta) > Len(lta) THEN Len(sta) ELSE Len(lta)
        at(s, i) == IF Len(s) = 1 THEN s[1] ELSE s[i]
    IN [i \in 1..n |->
          IF at(lta, i) = 0
          THEN [num |-> at(sta, i), den |-> 1, floored |-> TRUE]
          ELSE [num |-> at(sta, i), den |-> at(lta, i), floored |-> FALSE]]

_calculate_sta_lta(data, sta_window, lta_window) ==
    LET sta == convolve_same(data, sta_window)
        lta == convolve_same(data, lta_window)
        n   == IF Len(sta) > Len(lta) THEN Len(sta) ELSE Len(lta)
        at(s, i) == IF Len(s) = 1 THEN s[1] ELSE s[i]
        \* lta < 1e-10, i.e. sum / lta_window < 1 / EpsInv
        small(L) == L <= (lta_window - 1) \div EpsInv
    IN [i \in 1..n |->
          IF small(at(lta, i))
          THEN [num |-> at(sta, i), den |-> sta_window, floored |-> TRUE]
          ELSE [num |-> at(sta, i) * lta_window,
                den |-> sta_window * at(lta, i), floored |-> FALSE]]

(***************************************************************************)
(* _check_duration_criteria, earthquake_detector.py:158-179.               *)
(***************************************************************************)
\* a duration taken from the longest unbroken run of samples above the
\* threshold
_check_duration_criteria_longest_run(self, accel_x, accel_y, accel_z) ==
    LET above == {i \in DOMAIN accel_x :
            SqrtGt(accel_x[i] * accel_x[i] + accel_y[i] * accel_y[i]
                   + accel_z[i] * accel_z[i], self.pga_threshold)}
    IN \E k \in 0..Len(accel_x) :
          /\ k * Scale >= self.min_duration_seconds * self.sample_rate
          /\ k > 0 => \E i \in DOMAIN accel_x : \A j \in i..(i + k - 1) : j \in above

_check_duration_criteria(self, accel_x, accel_y, accel_z) ==
    LET accel_magnitude == [i \in DOMAIN accel_x |->
            accel_x[i] * accel_x[i] + accel_y[i] * accel_y[i]
            + accel_z[i] * accel_z[i]]
        threshold_samples == Cardinality({i \in DOMAIN accel_x :
            SqrtGt(accel_magnitude[i], self.pga_threshold)})
    IN \* threshold_samples / sample_rate >= min_duration_seconds
       threshold_samples * Scale >= self.min_duration_seconds * self.sample_rate

(***************************************************************************)
(* _perform_detection, earthquake_detector.py:181-243.  pga_magnitude_sq   *)
(* is the square of pga_magnitude; now is the value of datetime.now().     *)
(***************************************************************************)
\* a criterion that compares the squared magnitude (in g^2) with the threshold
pga_exceeds_squared(self, pga_magnitude_sq) ==
    pga_magnitude_sq > self.pga_threshold * Scale

\* line 198: pga_magnitude > self.settings.pga_threshold
pga_exceeds(self, pga_magnitude_sq) ==
    SqrtGt(pga_magnitude_sq, self.pga_threshold)

\* a ratio criterion that a value equal to the threshold passes
sta_lta_exceeds_or_equals(self, max_sta_lta) ==
    ~GtRatio(AsRatio(self.sta_lta_threshold), max_sta_lta)

\* line 199: max_sta_lta > self.settings.sta_lta_threshold
sta_lta_exceeds(self, max_sta_lta) ==
    GtRatio(max_sta_lta, AsRatio(self.sta_lta_threshold))

\* a detection that forgets the duration criterion
detected_without_duration(pga_criteria, sta_lta_criteria, duration_criteria) ==
    pga_criteria /\ sta_lta_criteria

detected(pga_criteria, sta_lta_criteria, duration_criteria) ==
    pga_criteria /\ sta_lta_criteria /\ duration_criteria

\* a score that is only reported for a detection
confidence_score_if_detected(pga_criteria, sta_lta_criteria, duration_criteria) ==
    IF pga_criteria /\ sta_lta_criteria /\ duration_criteria THEN 3 ELSE 0

confidence_score(pga_criteria, sta_lta_criteria, duration_criteria) ==
    (IF pga_criteria THEN 1 ELSE 0) + (IF sta_lta_criteria THEN 1 ELSE 0)
    + (IF duration_criteria THEN 1 ELSE 0)

\* a severity that tests detected before the confirmation level
severity_detected_first(self, pga_magnitude_sq, is_detected) ==
    IF ~is_detected THEN "LOW"
    ELSE IF SqrtGt(pga_magnitude_sq, self.pga_confirmation) THEN "HIGH"
    ELSE "MEDIUM"

\* a severity with two levels, MEDIUM for everything below the confirmation
\* level
severity_two_levels(self, pga_magnitude_sq, is_detected) ==
    IF SqrtGt(pga_magnitude_sq, self.pga_confirmation) THEN "HIGH"
    ELSE "MEDIUM"

severity(self, pga_magnitude_sq, is_detected) ==
    IF SqrtGt(pga_magnitude_sq, self.pga_confirmation) THEN "HIGH"
    ELSE IF is_detected THEN "MEDIUM"
    ELSE "LOW"

\* a verdict that raises the alarm only at the first tick of the clock
_perform_detection_first_only(self, pga_x, pga_y, pga_z, pga_magnitude_sq, max_sta_lta, duration_check, now) ==
    LET pga_criteria      == SqrtGt(pga_magnitude_sq, self.pga_threshold)
        sta_lta_criteria  == GtRatio(max_sta_lta, AsRatio(self.sta_lta_threshold))
        det == now = 1 /\ detected(pga_criteria, sta_lta_criteria, duration_check)
    IN [detected         |-> det,
        severity         |-> severity(self, pga_magnitude_sq, det),
        confidence_score |-> confidence_score(pga_criteria, sta_lta_criteria,
                                              duration_check),
        timestamp        |-> now,
        criteria   |-> [pga_threshold     |-> pga_criteria,
                        sta_lta_threshold |-> sta_lta_criteria,
                        duration_check    |-> duration_check],
        metrics    |-> [pga_x |-> pga_x, pga_y |-> pga_y, pga_z |-> pga_z,
                        pga_magnitude_sq |-> pga_magnitude_sq,
                        max_sta_lta      |-> max_sta_lta,
                        duration_check   |-> duration_check],
        thresholds |-> [pga_threshold        |-> self.pga_threshold,
                        pga_confirmation     |-> self.pga_confirmation,
                        sta_lta_threshold    |-> self.sta_lta_threshold,
                        min_duration_seconds |-> self.min_duration_seconds]]

_perform_detection(self, pga_x, pga_y, pga_z, pga_magnitude_sq, max_sta_lta, duration_check, now) ==
    LET pga_criteria      == pga_exceeds(self, pga_magnitude_sq)
        sta_lta_criteria  == sta_lta_exceeds(self, max_sta_lta)
        duration_criteria == duration_check
        det == detected(pga_criteria, sta_lta_criteria, duration_criteria)
    IN [detected         |-> det,
        severity         |-> severity(self, pga_magnitude_sq, det),
        confidence_score |-> confidence_score(pga_criteria, sta_lta_criteria,
                                              duration_criteria),
        timestamp        |-> now,
        criteria   |-> [pga_threshold     |-> pga_criteria,
                        sta_lta_threshold |-> sta_lta_criteria,
                        duration_check    |-> duration_criteria],
        metrics    |-> [pga_x |-> pga_x, pga_y |-> pga_y, pga_z |-> pga_z,
                        pga_magnitude_sq |-> pga_magnitude_sq,
                        max_sta_lta      |-> max_sta_lta,
                        duration_check   |-> duration_check],
        thresholds |-> [pga_threshold        |-> self.pga_threshold,
                        pga_confirmation     |-> self.pga_confirmation,
                        sta_lta_threshold    |-> self.sta_lta_threshold,
                        min_duration_seconds |-> self.min_duration_seconds]]

(***************************************************************************)
(* The try block of process_imu_data up to the verdict,                    *)
(* earthquake_detector.py:49-112.  data is the DataFrame: a function from  *)
(* its column names to columns of one common length.  The outcome is       *)
(* either the exception raised (exc) or the computed values.               *)
(***************************************************************************)
AxisColumns == {"accel_x", "accel_y", "accel_z"}

process_try(self, data, now) ==
    IF ~(AxisColumns \subseteq DOMAIN data)
    THEN [exc |-> Some("KeyError")]                       \* lines 51-53
    ELSE
      LET filtered_accel_x == apply_bandpass_filter(data.accel_x,
              self.sample_rate, self.low_cut_freq, self.high_cut_freq,
              self.filter_order)
          filtered_accel_y == apply_bandpass_filter(data.accel_y,
              self.sample_rate, self.low_cut_freq, self.high_cut_freq,
              self.filter_order)
          filtered_accel_z == apply_bandpass_filter(data.accel_z,
              self.sample_rate, self.low_cut_freq, self.high_cut_freq,
              self.filter_order)
          sta_window == PyInt(self.sta_window_seconds * self.sample_rate, Scale)
          lta_window == PyInt(self.lta_window_seconds * self.sample_rate, Scale)
      IN IF _calculate_sta_lta_raises(filtered_accel_x, sta_window, lta_window)
         THEN [exc |-> Some("ValueError")]                \* lines 82-84
         ELSE
           LET sta_lta_x == _calculate_sta_lta(filtered_accel_x, sta_window, lta_window)
               sta_lta_y == _calculate_sta_lta(filtered_accel_y, sta_window, lta_window)
               sta_lta_z == _calculate_sta_lta(filtered_accel_z, sta_window, lta_window)
               pga_x == SetMax({Abs(v) : v \in Range(filtered_accel_x)})
               pga_y == SetMax({Abs(v) : v \in Range(filtered_accel_y)})
               pga_z == SetMax({Abs(v) : v \in Range(filtered_accel_z)})
               pga_magnitude_sq == pga_x * pga_x + pga_y * pga_y + pga_z * pga_z
               max_sta_lta == MaxRatio(<<MaxRatio(sta_lta_x), MaxRatio(sta_lta_y),
                                         MaxRatio(sta_lta_z)>>)
               duration_check == _check_duration_criteria(self,
                   filtered_accel_x, filtered_accel_y, filtered_accel_z)
           IN [exc |-> None,
               processed_data |->
                 [filtered_accel_x |-> filtered_accel_x,
                  filtered_accel_y |-> filtered_accel_y,
                  filtered_accel_z |-> filtered_accel_z,
                  sta_lta_x |-> sta_lta_x,
                  sta_lta_y |-> sta_lta_y,
                  sta_lta_z |-> sta_lta_z],
               detection_result |->
                 _perform_detection(self, pga_x, pga_y, pga_z, pga_magnitude_sq,
                                    max_sta_lta, duration_check, now)]

(***************************************************************************)
(* Settings.__init__, config.py:12-33: every field is read from the        *)
(* environment, so any value can occur.  Configs are the configurations    *)
(* of the model, at a sample rate of 4 Hz.                                 *)
(***************************************************************************)
BaseSettings ==
    [pga_threshold        |-> 20,      \* 0.02 g
     pga_confirmation     |-> 50,      \* 0.05 g
     sta_lta_threshold    |-> 1500,    \* 1.5
     min_duration_seconds |-> 500,     \* 0.5 s
     low_cut_freq         |-> 500,     \* 0.5 Hz
     high_cut_freq        |-> 1000,    \* 1.0 Hz
     filter_order         |-> 1,
     sta_window_seconds   |-> 500,     \* 0.5 s: 2 samples
     lta_window_seconds   |-> 2000,    \* 2.0 s: 8 samples
     sample_rate          |-> 4,
     save_detection_plots |-> TRUE]

Configs ==
    { BaseSettings,
      \* EARTHQUAKE_SAVE_DETECTION_PLOTS=false
      [BaseSettings EXCEPT !.save_detection_plots = FALSE],
      \* the default 5.0 Hz upper cutoff (above the Nyquist frequency of 2 Hz)
      \* and the default ratio threshold 2.5, no minimum duration
      [BaseSettings EXCEPT !.high_cut_freq = 5000, !.sta_lta_threshold = 2500,
                           !.min_duration_seconds = 0],
      \* a long-term window of 1.0 s: 4 samples
      [BaseSettings EXCEPT !.lta_window_seconds = 1000],
      \* a short-term window of 0.7 s: 2.8 samples; the upper cutoff above
      \* the Nyquist frequency, a ratio threshold of 1.6, no minimum duration
      [BaseSettings EXCEPT !.sta_window_seconds = 700, !.high_cut_freq = 5000,
                           !.sta_lta_threshold = 1600,
                           !.min_duration_seconds = 0],
      \* a detection threshold of 0.2 g, above the confirmation level of
      \* 0.05 g, and a ratio threshold of 5.0
      [BaseSettings EXCEPT !.pga_threshold = 200, !.sta_lta_threshold = 5000] }

(***************************************************************************)
(* Batches handed to process_imu_data.  A burst batch of n samples is      *)
(* quiet (gravity g on z) except for len samples from index start, which   *)
(* carry an oscillation of amplitude amp on x, 0.8 amp on y and 0.6 amp on *)
(* z (cf. generate_synthetic_earthquake_data, utils.py:168-230).           *)
(***************************************************************************)
Wave == <<1, 1, -1, -1>>

Burst(n, start, len, amp, g) ==
    LET w(i) == IF i >= start /\ i < start + len
                THEN Wave[((i - start) % 4) + 1] ELSE 0
    IN [accel_x |-> [i \in 1..n |-> amp * w(i)],
        accel_y |-> [i \in 1..n |-> ((amp * 4) \div 5) * w(i)],
        accel_z |-> [i \in 1..n |-> g + ((amp * 3) \div 5) * w(i)]]

BatchLen == 10

\* <<len, amp, g>> of the burst batches
BurstShapes ==
    { <<0, 0, 0>>,         \* all zero
      <<0, 0, 1000>>,      \* at rest: constant 1 g on z
      <<0, 0, 20>>,        \* constant 0.02 g on z
      <<4, 100, 1000>>,    \* one second at 0.1 g
      <<4, 30, 0>>,        \* one second at 0.03 g
      <<1, 100, 0>>,       \* a single spike
      <<2, 30, 0>> }       \* half a second at 0.03 g

Batches ==
    { Burst(BatchLen, 4, p[1], p[2], p[3]) : p \in BurstShapes }
    \* batches too short for the padding of filtfilt
    \cup { Burst(6, 3, len, 100, 0) : len \in {0, 1, 3} }
    \* an empty batch, and a batch without the accel_z column
    \cup { Burst(0, 1, 0, 0, 0) }
    \cup { [accel_x |-> <<0, 0>>, accel_y |-> <<0, 0>>] }

(***************************************************************************)
(* State.                                                                  *)
(*   settings             self.settings                                    *)
(*   detection_count      self.detection_count                             *)
(*   last_detection_time  self.last_detection_time (nullable)              *)
(*   clock                the wall clock read by datetime.now(); it ticks  *)
(*                        once in every process_imu_data call              *)
(*   plots                the file names handed to save_detection_plot so  *)
(*                        far, each the pair of its number and its time    *)
(*   op                   the method called last                           *)
(*   data                 the batch of the last process_imu_data call      *)
(*   ret                  what the last process_imu_data call returned     *)
(*   raised               the exception that escaped that call (nullable)  *)
(*   repeated             that call was given the batch of the call before *)
(*   emitted              the save_detection_plot calls made by that call  *)
(*   stats                what the last get_detection_stats call returned  *)
(* Calls made from several threads on one detector (SpecThreads):          *)
(*   pc                   where each thread is in its process_imu_data     *)
(*                        call                                             *)
(*   frame                the locals of that call: its batch, the time and *)
(*                        the detected flag of its verdict, and the value  *)
(*                        of self.detection_count it has read              *)
(*   serialized           the caller wraps every call in one lock          *)
(*   mutex                the holder of that lock (nullable)               *)
(* apply_bandpass_filter called on its own (SpecFilter):                   *)
(*   signal               the sine wave handed to the filter (nullable)    *)
(*   filtered             what the filter returned (nullable)              *)
(***************************************************************************)
VARIABLES settings, detection_count, last_detection_time, clock, plots,
          op, data, ret, raised, repeated, emitted, stats,
          pc, frame, serialized, mutex,
          signal, filtered

vars == <<settings, detection_count, last_detection_time, clock, plots,
          op, data, ret, raised, repeated, emitted, stats,
          pc, frame, serialized, mutex,
          signal, filtered>>

\* the threads that call the detector
Threads == {1, 2}

threadvars == <<pc, frame, serialized, mutex>>

callvars == <<op, data, ret, raised, repeated, emitted, stats>>

\* a signal handed to apply_bandpass_filter on its own, and what came back
filtervars == <<signal, filtered>>

\* no call is in progress
idle_frame == [batch |-> None, now |-> 0, detected |-> FALSE, loaded |-> 0]

(***************************************************************************)
(* save_detection_plot, utils.py:15-130: the whole body is inside          *)
(* try/except Exception, so an I/O failure (io_ok false) makes it return   *)
(* False and nothing is raised.                                            *)
(***************************************************************************)
save_detection_plot(processed_data, detection_result, filename, io_ok) ==
    [returned |-> io_ok, exc |-> None]

(***************************************************************************)
(* _handle_detection, earthquake_detector.py:245-268.  count is the value  *)
(* of self.detection_count at entry.  The result holds the new counter     *)
(* and time, the save_detection_plot calls made, and the exception that    *)
(* leaves the method: none, its own except clause swallows all of them     *)
(* and undoes nothing.                                                     *)
(***************************************************************************)
\* lines 260-263: the save_detection_plot calls of one detection
plot_calls_if_high(self, processed_data, detection_result, filename, io_ok) ==
    IF self.save_detection_plots /\ detection_result.severity = "HIGH"
    THEN <<[processed_data   |-> processed_data,
            detection_result |-> detection_result,
            filename         |-> filename,
            returned         |-> save_detection_plot(processed_data,
                                     detection_result, filename, io_ok).returned]>>
    ELSE << >>

plot_calls(self, processed_data, detection_result, filename, io_ok) ==
    IF self.save_detection_plots
    THEN <<[processed_data   |-> processed_data,
            detection_result |-> detection_result,
            filename         |-> filename,
            returned         |-> save_detection_plot(processed_data,
                                     detection_result, filename, io_ok).returned]>>
    ELSE << >>

\* a handler without its except clause that raises when the plot was not saved
_handle_detection_raising(self, count, processed_data, detection_result, now, io_ok) ==
    LET filename == [number |-> count + 1, time |-> now]
        calls    == plot_calls(self, processed_data, detection_result,
                               filename, io_ok)
    IN [detection_count     |-> count + 1,
        last_detection_time |-> Some(now),
        calls |-> calls,
        exc   |-> IF calls # << >> /\ ~calls[1].returned
                  THEN Some("OSError") ELSE None]

\* a handler that leaves last_detection_time alone
_handle_detection_no_time(self, count, processed_data, detection_result, now, io_ok) ==
    [detection_count     |-> count + 1,
     last_detection_time |-> None,
     calls |-> plot_calls(self, processed_data, detection_result,
                          [number |-> count + 1, time |-> now], io_ok),
     exc   |-> None]

\* a transactional handler: a plot that was not saved takes the count back
\* and the failure is raised to the caller
_handle_detection_rollback(self, count, processed_data, detection_result, now, io_ok) ==
    LET calls == plot_calls(self, processed_data, detection_result,
                            [number |-> count + 1, time |-> now], io_ok)
        saved == calls = << >> \/ calls[1].returned
    IN [detection_count     |-> IF saved THEN count + 1 ELSE count,
        last_detection_time |-> Some(now),
        calls |-> calls,
        exc   |-> IF saved THEN None ELSE Some("OSError")]

\* a handler that saves the plot first and counts the detection only when
\* the plot was saved
_handle_detection_count_after_save(self, count, processed_data, detection_result, now, io_ok) ==
    LET calls == plot_calls(self, processed_data, detection_result,
                            [number |-> count + 1, time |-> now], io_ok)
        saved == calls = << >> \/ calls[1].returned
    IN [detection_count     |-> IF saved THEN count + 1 ELSE count,
        last_detection_time |-> IF saved THEN Some(now) ELSE None,
        calls |-> calls,
        exc   |-> None]

\* a handler that records the time of a detection only once its plot is saved
_handle_detection_time_after_save(self, count, processed_data, detection_result, now, io_ok) ==
    LET calls == plot_calls(self, processed_data, detection_result,
                            [number |-> count + 1, time |-> now], io_ok)
    IN [detection_count     |-> count + 1,
        last_detection_time |-> IF calls = << >> \/ calls[1].returned
                                THEN Some(now) ELSE None,
        calls |-> calls,
        exc   |-> None]

\* a handler that names the plot before it counts the detection
_handle_detection_numbered_before(self, count, processed_data, detection_result, now, io_ok) ==
    [detection_count     |-> count + 1,
     last_detection_time |-> Some(now),
     calls |-> plot_calls(self, processed_data, detection_result,
                          [number |-> count, time |-> now], io_ok),
     exc   |-> None]

_handle_detection(self, count, processed_data, detection_result, now, io_ok) ==
    LET new_count == count + 1                                  \* line 254
        filename  == [number |-> new_count, time |-> now]       \* line 262
    IN [detection_count     |-> new_count,
        last_detection_time |-> Some(now),                      \* line 255
        calls |-> plot_calls(self, processed_data, detection_result,
                             filename, io_ok),                  \* lines 261-263
        exc   |-> None]                                         \* line 267

(***************************************************************************)
(* process_imu_data, earthquake_detector.py:38-133.                        *)
(***************************************************************************)
\* a call that handles every verdict it computes
handles_every_verdict(out) == out.exc = None

\* line 117: _handle_detection runs when the try block got that far and the
\* verdict says detected.
handles(out) == out.exc = None /\ out.detection_result.detected

\* The exception classes met in the code; all derive from Exception.
Exception == {"KeyError", "ValueError", "ZeroDivisionError", "OSError"}

\* an except clause for ValueError only
except_ValueError(exc) == exc = "ValueError"

\* line 125: except Exception
except_Exception(exc) == exc \in Exception

\* lines 127-133
error_result(exc) ==
    [processed_data   |-> << >>,
     detection_result |-> [detected |-> FALSE, error |-> exc]]

\* io_ok: whether the file system takes the plot of this call
process_imu_data(batch) ==
    /\ clock < MaxCalls
    /\ clock' = clock + 1
    /\ \E out \in {process_try(settings, batch, clock + 1)} :
       \E io_ok \in (IF handles(out) THEN BOOLEAN ELSE {TRUE}) :
       LET now == clock + 1
           h   == _handle_detection(settings, detection_count,
                      out.processed_data, out.detection_result, now, io_ok)
           \* the exception pending when the try block ends
           exc == IF out.exc # None THEN out.exc
                  ELSE IF handles(out) THEN h.exc
                  ELSE None
       IN /\ IF handles(out)
             THEN /\ detection_count' = h.detection_count
                  /\ last_detection_time' = h.last_detection_time
                  /\ emitted' = h.calls
                  /\ plots' = plots \o [i \in DOMAIN h.calls |-> h.calls[i].filename]
             ELSE /\ emitted' = << >>
                  /\ UNCHANGED <<detection_count, last_detection_time, plots>>
          /\ IF exc = None
             THEN /\ ret' = Some([processed_data   |-> out.processed_data,
                                  detection_result |-> out.detection_result])
                  /\ raised' = None
             ELSE IF except_Exception(exc[1])
             THEN /\ ret' = Some(error_result(exc[1]))
                  /\ raised' = None
             ELSE /\ ret' = None
                  /\ raised' = exc
    /\ data' = Some(batch)
    /\ repeated' = (data = Some(batch))
    /\ op' = "process_imu_data"
    /\ UNCHANGED <<settings, stats>>
    /\ UNCHANGED threadvars
    /\ UNCHANGED filtervars

(***************************************************************************)
(* get_detection_stats, earthquake_detector.py:270-286.                    *)
(***************************************************************************)
\* statistics that restart the count
get_detection_stats_reset ==
    /\ stats' = Some([total_detections    |-> detection_count,
                      last_detection_time |-> last_detection_time])
    /\ op' = "get_detection_stats"
    /\ detection_count' = 0
    /\ UNCHANGED <<settings, last_detection_time, clock, plots,
                   data, ret, raised, repeated, emitted>>
    /\ UNCHANGED threadvars
    /\ UNCHANGED filtervars

\* statistics that count the plots on disk
get_detection_stats_from_plots ==
    /\ stats' = Some([total_detections    |-> Cardinality({i \in DOMAIN plots : TRUE}),
                      last_detection_time |-> last_detection_time,
                      settings |-> [pga_threshold        |-> settings.pga_threshold,
                                    pga_confirmation     |-> settings.pga_confirmation,
                                    sta_lta_threshold    |-> settings.sta_lta_threshold,
                                    min_duration_seconds |-> settings.min_duration_seconds]])
    /\ op' = "get_detection_stats"
    /\ UNCHANGED <<settings, detection_count, last_detection_time, clock, plots,
                   data, ret, raised, repeated, emitted>>
    /\ UNCHANGED threadvars
    /\ UNCHANGED filtervars

get_detection_stats ==
    /\ stats' = Some([total_detections    |-> detection_count,
                      last_detection_time |-> last_detection_time,
                      settings |-> [pga_threshold        |-> settings.pga_threshold,
                                    pga_confirmation     |-> settings.pga_confirmation,
                                    sta_lta_threshold    |-> settings.sta_lta_threshold,
                                    min_duration_seconds |-> settings.min_duration_seconds]])
    /\ op' = "get_detection_stats"
    /\ UNCHANGED <<settings, detection_count, last_detection_time, clock, plots,
                   data, ret, raised, repeated, emitted>>
    /\ UNCHANGED threadvars
    /\ UNCHANGED filtervars

(***************************************************************************)
(* EarthquakeDetector.__init__, earthquake_detector.py:22-36.              *)
(***************************************************************************)
Init ==
    /\ settings \in Configs
    /\ detection_count = 0
    /\ last_detection_time = None
    /\ clock = 0
    /\ plots = << >>
    /\ op = "__init__"
    /\ data = None
    /\ ret = None
    /\ raised = None
    /\ repeated = FALSE
    /\ emitted = << >>
    /\ stats = None
    /\ pc = [t \in Threads |-> "idle"]
    /\ frame = [t \in Threads |-> idle_frame]
    /\ serialized = TRUE
    /\ mutex = None
    /\ signal = None
    /\ filtered = None

Next ==
    \/ \E batch \in Batches : process_imu_data(batch)
    \/ get_detection_stats

Spec == Init /\ [][Next]_vars

(***************************************************************************)
(* process_imu_data called from several threads on one detector, each      *)
(* thread once.  A thread can be preempted between any two bytecodes, so   *)
(* the call is a sequence of steps; the steps that touch the shared state  *)
(* are the read and the write of `self.detection_count += 1` (line 254),   *)
(* the assignment of line 255 and the read of line 262.  The detector has  *)
(* no lock of its own: the only lock is the one of a serializing caller.   *)
(***************************************************************************)
\* the batches the threads pass: a burst, a single spike and a batch at rest
ThreadBatches ==
    { Burst(BatchLen, 4, p[1], p[2], p[3]) :
          p \in {<<4, 100, 1000>>, <<1, 100, 0>>, <<0, 0, 1000>>} }

\* the caller (serialized: after taking its lock) enters process_imu_data
call_begin(t, batch) ==
    /\ pc[t] = "idle"
    /\ serialized => mutex = None
    /\ mutex' = IF serialized THEN Some(t) ELSE mutex
    /\ frame' = [frame EXCEPT ![t].batch = Some(batch)]
    /\ pc' = [pc EXCEPT ![t] = "try"]
    /\ UNCHANGED <<settings, detection_count, last_detection_time, clock,
                   plots, serialized>>
    /\ UNCHANGED callvars
    /\ UNCHANGED filtervars

\* lines 49-117: the verdict, from locals and self.settings only
compute_verdict(t) ==
    /\ pc[t] = "try"
    /\ clock' = clock + 1
    /\ \E out \in {process_try(settings, frame[t].batch[1], clock + 1)} :
          /\ frame' = [frame EXCEPT ![t].detected = handles(out),
                                    ![t].now = clock + 1]
          /\ pc' = [pc EXCEPT ![t] = IF handles(out) THEN "load" ELSE "return"]
    /\ UNCHANGED <<settings, detection_count, last_detection_time, plots,
                   serialized, mutex>>
    /\ UNCHANGED callvars
    /\ UNCHANGED filtervars

\* line 254, the read of self.detection_count
load_detection_count(t) ==
    /\ pc[t] = "load"
    /\ frame' = [frame EXCEPT ![t].loaded = detection_count]
    /\ pc' = [pc EXCEPT ![t] = "store"]
    /\ UNCHANGED <<settings, detection_count, last_detection_time, clock,
                   plots, serialized, mutex>>
    /\ UNCHANGED callvars
    /\ UNCHANGED filtervars

\* a write of the value read plus two
store_detection_count_twice(t) ==
    /\ pc[t] = "store"
    /\ detection_count' = frame[t].loaded + 2
    /\ pc' = [pc EXCEPT ![t] = "time"]
    /\ UNCHANGED <<settings, last_detection_time, clock, plots, frame,
                   serialized, mutex>>
    /\ UNCHANGED callvars
    /\ UNCHANGED filtervars

\* line 254, the write of the value read plus one
store_detection_count(t) ==
    /\ pc[t] = "store"
    /\ detection_count' = frame[t].loaded + 1
    /\ pc' = [pc EXCEPT ![t] = "time"]
    /\ UNCHANGED <<settings, last_detection_time, clock, plots, frame,
                   serialized, mutex>>
    /\ UNCHANGED callvars
    /\ UNCHANGED filtervars

\* line 255
set_last_detection_time(t) ==
    /\ pc[t] = "time"
    /\ last_detection_time' = Some(clock)
    /\ pc' = [pc EXCEPT ![t] = "plot"]
    /\ UNCHANGED <<settings, detection_count, clock, plots, frame,
                   serialized, mutex>>
    /\ UNCHANGED callvars
    /\ UNCHANGED filtervars

\* lines 261-263: the file name reads self.detection_count again; a plot
\* that cannot be saved changes nothing
save_plot(t) ==
    /\ pc[t] = "plot"
    /\ plots' = IF settings.save_detection_plots
                THEN Append(plots, [number |-> detection_count, time |-> clock])
                ELSE plots
    /\ pc' = [pc EXCEPT ![t] = "return"]
    /\ UNCHANGED <<settings, detection_count, last_detection_time, clock,
                   frame, serialized, mutex>>
    /\ UNCHANGED callvars
    /\ UNCHANGED filtervars

\* lines 120-133: the call returns (and a serializing caller drops its lock)
call_return(t) ==
    /\ pc[t] = "return"
    /\ pc' = [pc EXCEPT ![t] = "done"]
    /\ mutex' = IF mutex = Some(t) THEN None ELSE mutex
    /\ UNCHANGED <<settings, detection_count, last_detection_time, clock,
                   plots, frame, serialized>>
    /\ UNCHANGED callvars
    /\ UNCHANGED filtervars

InitThreads ==
    /\ settings \in Configs
    /\ detection_count = 0
    /\ last_detection_time = None
    /\ clock = 0
    /\ plots = << >>
    /\ op = "__init__"
    /\ data = None
    /\ ret = None
    /\ raised = None
    /\ repeated = FALSE
    /\ emitted = << >>
    /\ stats = None
    /\ pc = [t \in Threads |-> "idle"]
    /\ frame = [t \in Threads |-> idle_frame]
    /\ serialized \in BOOLEAN
    /\ mutex = None
    /\ signal = None
    /\ filtered = None

NextThreads ==
    \/ \E t \in Threads, batch \in ThreadBatches : call_begin(t, batch)
    \/ \E t \in Threads : compute_verdict(t)
    \/ \E t \in Threads : load_detection_count(t)
    \/ \E t \in Threads : store_detection_count(t)
    \/ \E t \in Threads : set_last_detection_time(t)
    \/ \E t \in Threads : save_plot(t)
    \/ \E t \in Threads : call_return(t)

SpecThreads == InitThreads /\ [][NextThreads]_vars

(***************************************************************************)
(* apply_bandpass_filter called on its own, filters.py:13-38, with the     *)
(* 0.5-5 Hz band of config.py:22-23 at the sample rate of config.py:29 and *)
(* a sampled sine wave as the signal.                                      *)
(***************************************************************************)
\* two and a half seconds of signal
SineLen == 260

\* sin(2*pi*k/104) for k = 0..103, in thousandths
SineTable ==
    <<0, 60, 121, 180, 239, 298, 355, 410, 465, 517, 568, 617, 663,
      707, 749, 787, 823, 856, 885, 912, 935, 955, 971, 984, 993, 998,
      1000, 998, 993, 984, 971, 955, 935, 912, 885, 856, 823, 787, 749,
      707, 663, 617, 568, 517, 465, 410, 355, 298, 239, 180, 121, 60,
      0, -60, -121, -180, -239, -298, -355, -410, -465, -517, -568, -617, -663,
      -707, -749, -787, -823, -856, -885, -912, -935, -955, -971, -984, -993, -998,
      -1000, -998, -993, -984, -971, -955, -935, -912, -885, -856, -823, -787, -749,
      -707, -663, -617, -568, -517, -465, -410, -355, -298, -239, -180, -121, -60>>

\* amplitude * sin(2*pi*freq*n/sample_rate + phase), n = 0..SineLen-1, with
\* freq in Hz, sample_rate = 104 and the phase in 104ths of a turn
Sine(freq, amplitude, phase) ==
    [i \in 1..SineLen |->
        RoundDiv(amplitude * SineTable[((freq * (i - 1) + phase) % 104) + 1],
                 Scale)]

\* a sine inside the band and two a decade above it, at three amplitudes
\* and eight phases
Sines ==
    { [freq |-> f, amplitude |-> m, samples |-> Sine(f, m, 13 * k)] :
          f \in {2, 50, 51}, m \in {100, 500, 1000}, k \in 0..7 }

FilterSettings ==
    [BaseSettings EXCEPT !.sample_rate = 104, !.low_cut_freq = 500,
                         !.high_cut_freq = 5000]

apply_filter ==
    /\ signal # None
    /\ filtered = None
    /\ filtered' = Some(apply_bandpass_filter(signal[1].samples,
                        settings.sample_rate, settings.low_cut_freq,
                        settings.high_cut_freq, settings.filter_order))
    /\ UNCHANGED <<settings, detection_count, last_detection_time, clock,
                   plots, signal>>
    /\ UNCHANGED callvars
    /\ UNCHANGED threadvars

InitFilter ==
    /\ settings = FilterSettings
    /\ detection_count = 0
    /\ last_detection_time = None
    /\ clock = 0
    /\ plots = << >>
    /\ op = "__init__"
    /\ data = None
    /\ ret = None
    /\ raised = None
    /\ repeated = FALSE
    /\ emitted = << >>
    /\ stats = None
    /\ pc = [t \in Threads |-> "idle"]
    /\ frame = [t \in Threads |-> idle_frame]
    /\ serialized = TRUE
    /\ mutex = None
    /\ signal \in {Some(w) : w \in Sines}
    /\ filtered = None

NextFilter == apply_filter

SpecFilter == InitFilter /\ [][NextFilter]_vars

(***************************************************************************)
(* Vocabulary of the properties.                                           *)
(***************************************************************************)
\* the last process_imu_data call returned a dictionary
Returned == ret # None

\* ... with a full verdict
Succeeded == Returned /\ "error" \notin DOMAIN ret[1].detection_result

\* ... with an error result
Failed == Returned /\ "error" \in DOMAIN ret[1].detection_result

Verdict == ret[1].detection_result

\* this step is a process_imu_data call
Processing == op' = "process_imu_data" /\ clock' # clock

StateUnchanged ==
    /\ detection_count' = detection_count
    /\ last_detection_time' = last_detection_time

(***************************************************************************)
(* C1.  The verdict of a successful call has detected true exactly when    *)
(* the pga, the sta/lta and the duration criterion are all true.           *)
(***************************************************************************)
C1_Fusion ==
    Succeeded =>
        (Verdict.detected <=> (/\ Verdict.criteria.pga_threshold
                               /\ Verdict.criteria.sta_lta_threshold
                               /\ Verdict.criteria.duration_check))

\* two criteria hold and the third fails: not detected
C1_Witness ==
    /\ Succeeded
    /\ Verdict.criteria.pga_threshold
    /\ Verdict.criteria.sta_lta_threshold
    /\ ~Verdict.criteria.duration_check
    /\ ~Verdict.detected

(***************************************************************************)
(* C2.  Severity is HIGH when pga_magnitude > pga_confirmation, whatever   *)
(* detected is; otherwise MEDIUM when detected; otherwise LOW.             *)
(***************************************************************************)
C2_Severity ==
    Succeeded =>
        Verdict.severity =
            IF SqrtGt(Verdict.metrics.pga_magnitude_sq,
                      Verdict.thresholds.pga_confirmation) THEN "HIGH"
            ELSE IF Verdict.detected THEN "MEDIUM"
            ELSE "LOW"

\* high PGA, duration criterion failed: HIGH and not detected
C2_Witness ==
    /\ Succeeded
    /\ SqrtGt(Verdict.metrics.pga_magnitude_sq, settings.pga_confirmation)
    /\ ~Verdict.criteria.duration_check
    /\ ~Verdict.detected
    /\ Verdict.severity = "HIGH"

C4_DurationFromRaw ==
    Succeeded =>
        Verdict.criteria.duration_check =
            _check_duration_criteria(settings, data[1].accel_x,
                                     data[1].accel_y, data[1].accel_z)

(***************************************************************************)
(* C5.  Nothing escapes a process_imu_data call: it returns, an error      *)
(* result says detected = false, and a batch without one of the axis       *)
(* columns or a failing STA/LTA computation gives an error result.         *)
(***************************************************************************)
MissingAxis == ~(AxisColumns \subseteq DOMAIN data[1])

\* apply_bandpass_filter took its except branch
FilterFailed ==
    /\ ~MissingAxis
    /\ apply_bandpass_filter_raises(data[1].accel_x, settings.sample_rate,
          settings.low_cut_freq, settings.high_cut_freq, settings.filter_order)

StaLtaFailed ==
    /\ ~MissingAxis
    /\ _calculate_sta_lta_raises(
          apply_bandpass_filter(data[1].accel_x, settings.sample_rate,
              settings.low_cut_freq, settings.high_cut_freq,
              settings.filter_order),
          PyInt(settings.sta_window_seconds * settings.sample_rate, Scale),
          PyInt(settings.lta_window_seconds * settings.sample_rate, Scale))

C5_NoEscape ==
    data # None =>
        /\ raised = None
        /\ Returned
        /\ Failed => ~Verdict.detected
        /\ (MissingAxis \/ StaLtaFailed) => Failed

\* a batch without accel_z was answered with an error result
C5_Witness ==
    /\ data # None
    /\ MissingAxis
    /\ Failed
    /\ Verdict.error = "KeyError"

\* the claim as stated: a failure in filtering gives an error result too
C5_FilterFailureIsError ==
    data # None =>
        /\ raised = None
        /\ Returned
        /\ (MissingAxis \/ FilterFailed \/ StaLtaFailed) =>
               (Failed /\ ~Verdict.detected)

(***************************************************************************)
(* C6.  A call that ends in an error result changes neither                *)
(* detection_count nor last_detection_time.                                *)
(***************************************************************************)
C6_ErrorLeavesState ==
    [][(Processing /\ Failed') => StateUnchanged]_vars

\* an error result after an earlier detection
C6_Witness ==
    /\ op = "process_imu_data"
    /\ Failed
    /\ detection_count = 1
    /\ last_detection_time = Some(1)
    /\ clock = 2

(***************************************************************************)
(* C7.  A call whose verdict has detected = false changes neither          *)
(* detection_count nor last_detection_time and calls save_detection_plot   *)
(* not at all.                                                             *)
(***************************************************************************)
C7_NoSideEffects ==
    [][(Processing /\ Returned' /\ ~Verdict'.detected) =>
          (StateUnchanged /\ emitted' = << >> /\ plots' = plots)]_vars

\* a full verdict without detection after an earlier detection
C7_Witness ==
    /\ op = "process_imu_data"
    /\ Succeeded
    /\ ~Verdict.detected
    /\ detection_count = 1
    /\ Len(plots) = 1
    /\ clock = 2

(***************************************************************************)
(* C8.  A call whose verdict has detected = true adds exactly one to       *)
(* detection_count and sets last_detection_time to an instant of the call; *)
(* no step changes detection_count by more than one.                       *)
(***************************************************************************)
C8_DetectionCounts ==
    [][/\ (Processing /\ Returned' /\ Verdict'.detected) =>
            /\ detection_count' = detection_count + 1
            /\ last_detection_time' # None
            /\ last_detection_time'[1] > clock
            /\ last_detection_time'[1] <= clock'
       /\ detection_count' - detection_count \in {-1, 0, 1}]_vars

\* the second detection of a session
C8_Witness ==
    /\ op = "process_imu_data"
    /\ Succeeded
    /\ Verdict.detected
    /\ detection_count = 2
    /\ last_detection_time = Some(2)

(***************************************************************************)
(* C9, as amended.  When save_detection_plots is set, a detecting call     *)
(* hands save_detection_plot the filtered signals and ratio series and     *)
(* the verdict it returns; when it is not set, nothing is handed over.     *)
(***************************************************************************)
Detecting == op = "process_imu_data" /\ Succeeded /\ Verdict.detected

C9_ArtifactWhenEnabled ==
    Detecting =>
        IF settings.save_detection_plots
        THEN /\ Len(emitted) = 1
             /\ emitted[1].processed_data = ret[1].processed_data
             /\ emitted[1].detection_result = ret[1].detection_result
             /\ DOMAIN emitted[1].processed_data =
                  {"filtered_accel_x", "filtered_accel_y", "filtered_accel_z",
                   "sta_lta_x", "sta_lta_y", "sta_lta_z"}
        ELSE emitted = << >>

\* a MEDIUM detection whose artifact was handed over
C9_Witness ==
    /\ Detecting
    /\ Verdict.severity = "MEDIUM"
    /\ settings.save_detection_plots
    /\ Len(emitted) = 1

\* the claim as stated: every detection emits, under every configuration
C9_ArtifactAlways ==
    Detecting =>
        /\ Len(emitted) = 1
        /\ emitted[1].processed_data = ret[1].processed_data
        /\ emitted[1].detection_result = ret[1].detection_result

(***************************************************************************)
(* C10.  detection_count starts at 0 and never decreases, and              *)
(* detection_count and last_detection_time change only in a                *)
(* process_imu_data call that returned detected = true.                    *)
(***************************************************************************)
C10_Monotone ==
    /\ detection_count = 0
    /\ [][/\ detection_count' >= detection_count
          /\ ~StateUnchanged =>
                (Processing /\ Returned' /\ Verdict'.detected)]_vars

\* statistics read after two detections
C10_Witness ==
    /\ op = "get_detection_stats"
    /\ detection_count = 2
    /\ stats # None
    /\ stats[1].total_detections = 2

(***************************************************************************)
(* C11.  A call given the batch of the call before it (same detector, same *)
(* configuration) returns the same detection_result, field by field,       *)
(* except timestamp: the counter, the time of the last detection and the   *)
(* earlier call leave no trace in the verdict.                             *)
(***************************************************************************)
SansTimestamp(result) == [f \in DOMAIN result \ {"timestamp"} |-> result[f]]

C11_Idempotent ==
    [][(Processing /\ repeated') =>
          /\ Returned /\ Returned'
          /\ SansTimestamp(Verdict') = SansTimestamp(Verdict)]_vars

\* the same batch detected twice: the second call met a counter of 1
C11_Witness ==
    /\ repeated
    /\ Detecting
    /\ detection_count = 2
    /\ last_detection_time = Some(2)
    /\ Verdict.timestamp = 2

(***************************************************************************)
(* C12.  When apply_bandpass_filter takes its except branch on a batch of  *)
(* at least one sample, the call returns a full verdict, and the filtered  *)
(* signals it reports are the raw columns.  (Violated: for a batch shorter *)
(* than the long-term window the ratio computation raises, see C14.)       *)
(***************************************************************************)
NonEmpty == ~MissingAxis /\ Len(data[1].accel_x) >= 1

C12_FallbackGivesVerdict ==
    (data # None /\ NonEmpty /\ FilterFailed) =>
        /\ Succeeded
        /\ ret[1].processed_data.filtered_accel_x = data[1].accel_x
        /\ ret[1].processed_data.filtered_accel_y = data[1].accel_y
        /\ ret[1].processed_data.filtered_accel_z = data[1].accel_z

(***************************************************************************)
(* C13.  A configuration that breaks low_cut_freq < high_cut_freq <        *)
(* sample_rate / 2 never produces a verdict.  (Violated: neither           *)
(* Settings.__init__ nor EarthquakeDetector.__init__ looks at the band.)   *)
(***************************************************************************)
NyquistInvariant(self) ==
    /\ self.low_cut_freq < self.high_cut_freq
    /\ 2 * self.high_cut_freq < self.sample_rate * Scale

C13_FailFast ==
    ~NyquistInvariant(settings) => ~Succeeded

(***************************************************************************)
(* C14.  For a batch of N >= 1 samples the call succeeds and each of the   *)
(* three ratio series has N values, whatever the window sizes.  (Violated: *)
(* with lta_window > N the two convolutions have different lengths and     *)
(* their quotient raises.)                                                 *)
(***************************************************************************)
RatioSeries == {"sta_lta_x", "sta_lta_y", "sta_lta_z"}

C14_RatioLength ==
    (data # None /\ NonEmpty) =>
        /\ Succeeded
        /\ \A k \in RatioSeries :
              Len(ret[1].processed_data[k]) = Len(data[1].accel_x)

(***************************************************************************)
(* C15.  Every value of a returned ratio series is STA[i] / max(LTA[i],    *)
(* 1e-10), where STA[i] and LTA[i] are the averages of |signal| over the   *)
(* sta_window and lta_window samples centred on i, samples beyond the      *)
(* signal counting as zero; every value is a finite non-negative number,   *)
(* also for an all-zero signal.                                            *)
(***************************************************************************)
StaWindow == PyInt(settings.sta_window_seconds * settings.sample_rate, Scale)

LtaWindow == PyInt(settings.lta_window_seconds * settings.sample_rate, Scale)

\* the sum of |sig[j]| over the w samples j = i - w \div 2 .. i - w \div 2 + w - 1
MovingSum(sig, w, i) ==
    Sum([j \in 1..Len(sig) |->
            IF j >= i - (w \div 2) /\ j <= i - (w \div 2) + w - 1
            THEN Abs(sig[j]) ELSE 0])

\* r is S/sw divided by max(L/lw, 1e-10)
IsRatioOf(r, S, sw, L, lw) ==
    /\ r.den > 0
    /\ r.num >= 0
    /\ IF L = 0 \/ EpsInv <= (lw - 1) \div L             \* L / lw < 1e-10
       THEN r.floored /\ r.num * sw = r.den * S
       ELSE ~r.floored /\ r.num * (sw * L) = r.den * (S * lw)

AxisOf == [sta_lta_x |-> "filtered_accel_x", sta_lta_y |-> "filtered_accel_y",
           sta_lta_z |-> "filtered_accel_z"]

C15_RatioFormula ==
    Succeeded =>
        \A k \in RatioSeries :
            LET sig == ret[1].processed_data[AxisOf[k]]
                rs  == ret[1].processed_data[k]
            IN \A i \in DOMAIN rs :
                  IsRatioOf(rs[i], MovingSum(sig, StaWindow, i), StaWindow,
                            MovingSum(sig, LtaWindow, i), LtaWindow)

\* an all-zero signal: every long-term average is floored, every ratio is 0
C15_Witness ==
    /\ Succeeded
    /\ Len(data[1].accel_x) >= LtaWindow
    /\ \A i \in DOMAIN data[1].accel_x : data[1].accel_x[i] = 0
    /\ \A i \in DOMAIN ret[1].processed_data.sta_lta_x :
          /\ ret[1].processed_data.sta_lta_x[i].floored
          /\ ret[1].processed_data.sta_lta_x[i].num = 0
    /\ \E i \in DOMAIN ret[1].processed_data.sta_lta_z :
          /\ ~ret[1].processed_data.sta_lta_z[i].floored
          /\ ret[1].processed_data.sta_lta_z[i].num > 0

(***************************************************************************)
(* C16.  The ratio series of a successful call are those of the windows    *)
(* round(sta_window_seconds * sample_rate) and round(lta_window_seconds *  *)
(* sample_rate).  (Violated: lines 79-80 truncate with int().)             *)
(***************************************************************************)
\* round(num / den) of Python for num >= 0: to the nearest integer, halves
\* to the even one
round(num, den) ==
    LET q == num \div den
        r == num % den
    IN IF 2 * r > den \/ (2 * r = den /\ q % 2 = 1) THEN q + 1 ELSE q

SameRatio(r, s) == ~GtRatio(r, s) /\ ~GtRatio(s, r)

C16_WindowsRounded ==
    Succeeded =>
        \A k \in RatioSeries :
            LET rs == ret[1].processed_data[k]
                expected == _calculate_sta_lta(ret[1].processed_data[AxisOf[k]],
                    round(settings.sta_window_seconds * settings.sample_rate, Scale),
                    round(settings.lta_window_seconds * settings.sample_rate, Scale))
            IN /\ Len(rs) = Len(expected)
               /\ \A i \in DOMAIN rs : SameRatio(rs[i], expected[i])

(***************************************************************************)
(* C17, as amended.  For a batch that is constant on every axis, at every  *)
(* index whose short-term and long-term windows lie inside the batch the   *)
(* ratio is 1.0 (STA equals LTA) when the filter fell back to the raw      *)
(* signal and the constant is not zero, and 0 otherwise (the band-pass     *)
(* filter removes a constant, and the long-term average is floored);       *)
(* detected is false unless the magnitude of the constant sample exceeds   *)
(* pga_threshold.                                                          *)
(***************************************************************************)
Columns == [sta_lta_x |-> "accel_x", sta_lta_y |-> "accel_y",
            sta_lta_z |-> "accel_z"]

ConstantBatch ==
    /\ data # None
    /\ NonEmpty
    /\ \A c \in AxisColumns : \A i \in DOMAIN data[1][c] : data[1][c][i] = data[1][c][1]

\* the windows of index i lie inside a signal of N samples
Inside(i, N) ==
    \A w \in {StaWindow, LtaWindow} :
        i - (w \div 2) >= 1 /\ i - (w \div 2) + w - 1 <= N

\* the square of the magnitude of the first sample
SampleMagnitudeSq ==
    data[1].accel_x[1] * data[1].accel_x[1] + data[1].accel_y[1] * data[1].accel_y[1]
    + data[1].accel_z[1] * data[1].accel_z[1]

C17_ConstantBatch ==
    (ConstantBatch /\ Succeeded) =>
        /\ \A k \in RatioSeries :
              LET rs == ret[1].processed_data[k]
              IN \A i \in DOMAIN rs :
                    Inside(i, Len(rs)) =>
                        IF FilterFailed /\ data[1][Columns[k]][1] # 0
                        THEN SameRatio(rs[i], AsRatio(Scale))
                        ELSE rs[i].num = 0
        /\ Verdict.detected => SqrtGt(SampleMagnitudeSq, settings.pga_threshold)

\* a constant batch that went unfiltered: ratio 1.0 inside, more at the edge
C17_Witness ==
    /\ ConstantBatch
    /\ Succeeded
    /\ FilterFailed
    /\ data[1].accel_z[1] # 0
    /\ \E i \in DOMAIN ret[1].processed_data.sta_lta_z :
          /\ Inside(i, Len(ret[1].processed_data.sta_lta_z))
          /\ SameRatio(ret[1].processed_data.sta_lta_z[i], AsRatio(Scale))
    /\ GtRatio(Verdict.metrics.max_sta_lta, AsRatio(Scale))

\* the claim as stated: max_sta_lta is 1.0 within one percent
C17_ConstantRatioOne ==
    (ConstantBatch /\ Succeeded) =>
        /\ ~GtRatio(Verdict.metrics.max_sta_lta, AsRatio(Scale + 10))
        /\ ~GtRatio(AsRatio(Scale - 10), Verdict.metrics.max_sta_lta)
        /\ Verdict.detected => SqrtGt(SampleMagnitudeSq, settings.pga_threshold)

(***************************************************************************)
(* C18.  In a full verdict pga_criterion is true exactly when the          *)
(* Euclidean norm of the three peaks of the filtered |signal| is strictly  *)
(* greater than pga_threshold, and sta_lta_criterion exactly when the      *)
(* greatest ratio of the three series, which is the reported max_sta_lta,  *)
(* is strictly greater than sta_lta_threshold.                             *)
(***************************************************************************)
Peak(sig) == CHOOSE m \in {Abs(sig[i]) : i \in DOMAIN sig} :
                 \A i \in DOMAIN sig : Abs(sig[i]) <= m

PeakNormSq ==
    Peak(ret[1].processed_data.filtered_accel_x) * Peak(ret[1].processed_data.filtered_accel_x)
    + Peak(ret[1].processed_data.filtered_accel_y) * Peak(ret[1].processed_data.filtered_accel_y)
    + Peak(ret[1].processed_data.filtered_accel_z) * Peak(ret[1].processed_data.filtered_accel_z)

AllRatios ==
    UNION {Range(ret[1].processed_data[k]) : k \in RatioSeries}

C18_StrictThresholds ==
    Succeeded =>
        /\ Verdict.metrics.pga_magnitude_sq = PeakNormSq
        /\ Verdict.criteria.pga_threshold <=>
              (settings.pga_threshold < 0
               \/ PeakNormSq > settings.pga_threshold * settings.pga_threshold)
        /\ \E v \in AllRatios : SameRatio(v, Verdict.metrics.max_sta_lta)
        /\ \A v \in AllRatios : ~GtRatio(v, Verdict.metrics.max_sta_lta)
        /\ Verdict.criteria.sta_lta_threshold <=>
              \E v \in AllRatios : GtRatio(v, AsRatio(settings.sta_lta_threshold))

\* both values equal to their thresholds: both criteria fail
C18_Witness ==
    /\ Succeeded
    /\ Verdict.metrics.pga_magnitude_sq = settings.pga_threshold * settings.pga_threshold
    /\ ~Verdict.criteria.pga_threshold
    /\ SameRatio(Verdict.metrics.max_sta_lta, AsRatio(settings.sta_lta_threshold))
    /\ ~Verdict.criteria.sta_lta_threshold

(***************************************************************************)
(* C19.  A detecting call whose save_detection_plot failed still returns   *)
(* normally, and what it returns is the verdict computed from the batch,   *)
(* the one handed to save_detection_plot: the result of a call whose plot  *)
(* was saved.                                                              *)
(***************************************************************************)
PlotFailed ==
    /\ op = "process_imu_data"
    /\ emitted # << >>
    /\ ~emitted[1].returned

C19_PlotFailureSwallowed ==
    PlotFailed =>
        /\ raised = None
        /\ Succeeded
        /\ Verdict.detected
        /\ ret[1].detection_result = emitted[1].detection_result
        /\ ret[1].detection_result =
              process_try(settings, data[1], clock).detection_result
        /\ ret[1].processed_data =
              process_try(settings, data[1], clock).processed_data

\* the second detection of a session lost its plot; both were counted
C19_Witness ==
    /\ PlotFailed
    /\ Detecting
    /\ detection_count = 2
    /\ Len(plots) = 2

(***************************************************************************)
(* C20.  Two calls on one detector, from two threads.  When both have      *)
(* returned, detection_count has grown by at most the number of detecting  *)
(* calls and by at least one if there is any; when the caller serialized   *)
(* the calls it has grown by exactly that number (by 2 for two detecting   *)
(* calls).  Without serialization the final count 1 after two detecting    *)
(* calls is reachable (C20_Witness).                                       *)
(***************************************************************************)
AllReturned == \A t \in Threads : pc[t] = "done"

Detections == Cardinality({t \in Threads : frame[t].detected})

C20_CounterUnderThreads ==
    AllReturned =>
        /\ detection_count <= Detections
        /\ Detections >= 1 => detection_count >= 1
        /\ serialized => detection_count = Detections

\* a lost update: both calls detected, not serialized, the counter is 1
C20_Witness ==
    /\ AllReturned
    /\ ~serialized
    /\ Detections = 2
    /\ detection_count = 1

(***************************************************************************)
(* C24.  The duration criterion of a full verdict is true exactly when the *)
(* number of samples whose magnitude is strictly greater than              *)
(* pga_threshold, adjacent or not, divided by sample_rate, is at least     *)
(* min_duration_seconds.  The samples are those handed to                  *)
(* _check_duration_criteria at line 96.                                    *)
(***************************************************************************)
MagnitudeSq(i) ==
    ret[1].processed_data.filtered_accel_x[i] * ret[1].processed_data.filtered_accel_x[i]
    + ret[1].processed_data.filtered_accel_y[i] * ret[1].processed_data.filtered_accel_y[i]
    + ret[1].processed_data.filtered_accel_z[i] * ret[1].processed_data.filtered_accel_z[i]

Above ==
    {i \in DOMAIN ret[1].processed_data.filtered_accel_x :
        settings.pga_threshold < 0
        \/ MagnitudeSq(i) > settings.pga_threshold * settings.pga_threshold}

C24_Duration ==
    Succeeded =>
        /\ Verdict.criteria.duration_check <=>
              Cardinality(Above) * Scale
                 >= settings.min_duration_seconds * settings.sample_rate
        /\ Verdict.metrics.duration_check = Verdict.criteria.duration_check

\* two separate samples above the threshold make exactly the minimum
C24_Witness ==
    /\ Succeeded
    /\ settings.min_duration_seconds > 0
    /\ Cardinality(Above) * Scale = settings.min_duration_seconds * settings.sample_rate
    /\ \A i \in Above : (i + 1) \notin Above
    /\ Verdict.criteria.duration_check

(***************************************************************************)
(* C25.  One call runs filter, ratios, metrics and criteria, fusion, and   *)
(* only then, if the verdict says detected, the counter update followed by *)
(* the plot.  So the plot is handed the finished verdict and the already   *)
(* incremented count, a call that detects nothing touches neither counter  *)
(* nor plot, and a detection whose plot was not saved is still counted and *)
(* timed.                                                                  *)
(***************************************************************************)
C25_StepOrder ==
    [][Processing =>
          /\ emitted' # << >> =>
                /\ Succeeded' /\ Verdict'.detected
                /\ emitted'[1].detection_result = Verdict'
                /\ emitted'[1].processed_data = ret'[1].processed_data
                /\ emitted'[1].filename.number = detection_count + 1
                /\ detection_count' = detection_count + 1
                /\ last_detection_time' = Some(clock')
          /\ ~(Succeeded' /\ Verdict'.detected) =>
                /\ emitted' = << >>
                /\ UNCHANGED <<detection_count, last_detection_time, plots>>]_vars

\* the first detection of a session lost its plot and is counted and timed
C25_Witness ==
    /\ PlotFailed
    /\ detection_count = 1
    /\ last_detection_time = Some(clock)
    /\ emitted[1].filename.number = 1

(***************************************************************************)
(* C26.  detection_count starts at 0 and every call adds one exactly when  *)
(* the result it returns says detected, so the count is the number of      *)
(* detecting calls made so far; get_detection_stats reports that count as  *)
(* total_detections and changes neither the count nor the time.            *)
(***************************************************************************)
C26_TotalDetections ==
    /\ detection_count = 0
    /\ [][/\ Processing =>
                 detection_count' = detection_count
                    + (IF Returned' /\ ret'[1].detection_result.detected
                       THEN 1 ELSE 0)
          /\ op' = "get_detection_stats" /\ clock' = clock =>
                 /\ stats'[1].total_detections = detection_count
                 /\ UNCHANGED <<detection_count, last_detection_time>>]_vars

\* statistics read after a detecting call and a call that detected nothing
C26_Witness ==
    /\ op = "get_detection_stats"
    /\ clock = 2
    /\ stats[1].total_detections = 1
    /\ Returned /\ ~ret[1].detection_result.detected

(***************************************************************************)
(* C27.  last_detection_time is null exactly when detection_count is 0,    *)
(* in every state, and so are the two fields of the statistics:            *)
(* get_detection_stats reports None before the first detection and a time  *)
(* after any detection.                                                    *)
(***************************************************************************)
C27_TimeNullIffNoDetection ==
    /\ (last_detection_time = None) <=> (detection_count = 0)
    /\ op = "get_detection_stats" =>
          /\ stats[1].total_detections = detection_count
          /\ stats[1].last_detection_time = last_detection_time
          /\ (stats[1].last_detection_time = None)
                <=> (stats[1].total_detections = 0)

\* statistics read after two detections carry the time of the second
C27_Witness ==
    /\ op = "get_detection_stats"
    /\ stats[1].total_detections = 2
    /\ stats[1].last_detection_time = Some(2)

(***************************************************************************)
(* C28.  A full verdict is consistent with itself: detected exactly when   *)
(* confidence_score is 3; MEDIUM only for a detection whose pga_magnitude  *)
(* is at most pga_confirmation; LOW only for a non-detection whose         *)
(* pga_magnitude is at most pga_confirmation; hence a detection is MEDIUM  *)
(* or HIGH.                                                                *)
(***************************************************************************)
AtMostConfirmation ==
    ~SqrtGt(Verdict.metrics.pga_magnitude_sq, Verdict.thresholds.pga_confirmation)

C28_VerdictConsistent ==
    Succeeded =>
        /\ Verdict.detected <=> Verdict.confidence_score = 3
        /\ Verdict.severity \in {"LOW", "MEDIUM", "HIGH"}
        /\ Verdict.severity = "MEDIUM" => Verdict.detected /\ AtMostConfirmation
        /\ Verdict.severity = "LOW" => ~Verdict.detected /\ AtMostConfirmation
        /\ Verdict.detected => Verdict.severity \in {"MEDIUM", "HIGH"}

\* a MEDIUM detection at full score, the only detection of two calls
C28_Witness ==
    /\ op = "process_imu_data"
    /\ Succeeded
    /\ Verdict.severity = "MEDIUM"
    /\ Verdict.confidence_score = 3
    /\ AtMostConfirmation
    /\ detection_count = 1
    /\ clock = 2

(***************************************************************************)
(* C29.  Under a configuration with pga_confirmation >= pga_threshold a    *)
(* HIGH verdict has its pga criterion true and a confidence_score of at    *)
(* least 1.  Under pga_confirmation < pga_threshold a HIGH verdict with    *)
(* confidence_score 0 exists (the witness C29_HighWithoutCriteria).        *)
(***************************************************************************)
C29_HighImpliesPga ==
    /\ Succeeded
    /\ settings.pga_confirmation >= settings.pga_threshold
    /\ Verdict.severity = "HIGH"
    => /\ Verdict.criteria.pga_threshold
       /\ Verdict.confidence_score >= 1

\* a magnitude between the confirmation level and a higher threshold
C29_HighWithoutCriteria ==
    /\ Succeeded
    /\ settings.pga_confirmation < settings.pga_threshold
    /\ Verdict.severity = "HIGH"
    /\ Verdict.confidence_score = 0
    /\ ~Verdict.detected

(***************************************************************************)
(* C30.  With plot saving enabled, the number in the filename of a         *)
(* detection's plot is detection_count after that detection's increment:   *)
(* the plots requested so far are numbered 1, 2, ..., detection_count in   *)
(* order, one per detection, and no two share a number.                    *)
(***************************************************************************)
C30_PlotNumbers ==
    settings.save_detection_plots =>
        /\ Len(plots) = detection_count
        /\ \A k \in DOMAIN plots : plots[k].number = k
        /\ \A j, k \in DOMAIN plots : plots[j].number = plots[k].number => j = k
        /\ Detecting => /\ emitted # << >>
                        /\ emitted[1].filename.number = detection_count

\* the second detection of a session is numbered 2
C30_Witness ==
    /\ settings.save_detection_plots
    /\ Detecting
    /\ Len(plots) = 2
    /\ plots[1].number = 1
    /\ emitted[1].filename.number = 2

(***************************************************************************)
(* C21.  apply_bandpass_filter returns as many samples as it was given,    *)
(* whether the signal was filtered or returned unchanged by the except     *)
(* clause: for every axis of every batch, under every configuration, the   *)
(* output has the index set of the input, and so have the filtered         *)
(* signals of a full result.                                               *)
(***************************************************************************)
FilteredName == [accel_x |-> "filtered_accel_x", accel_y |-> "filtered_accel_y",
                 accel_z |-> "filtered_accel_z"]

C21_SameLength ==
    (data # None /\ ~MissingAxis) =>
        \A c \in AxisColumns :
            /\ DOMAIN apply_bandpass_filter(data[1][c], settings.sample_rate,
                          settings.low_cut_freq, settings.high_cut_freq,
                          settings.filter_order)
                  = DOMAIN data[1][c]
            /\ Succeeded =>
                  DOMAIN ret[1].processed_data[FilteredName[c]] = DOMAIN data[1][c]

\* a batch that the filter changed, sample for sample as long as before
C21_Witness ==
    /\ Succeeded
    /\ ~FilterFailed
    /\ ret[1].processed_data.filtered_accel_x # data[1].accel_x
    /\ Len(ret[1].processed_data.filtered_accel_x) = Len(data[1].accel_x)
    /\ Len(data[1].accel_x) = BatchLen

(***************************************************************************)
(* C23.  With the 0.5-5 Hz band, a sine wave far outside the band, 50 Hz   *)
(* and above (ten times the upper cut-off), comes out of                   *)
(* apply_bandpass_filter, really filtered, with less than a tenth of its   *)
(* amplitude once the filter has settled: at every sample at least one     *)
(* second from both ends of the signal.                                    *)
(***************************************************************************)
Amplitude(x) == SetMax({Abs(x[i]) : i \in DOMAIN x})

FarOutside(freq) ==
    \/ freq * Scale >= 10 * settings.high_cut_freq
    \/ 10 * freq * Scale <= settings.low_cut_freq

\* the samples at least one second from both ends
Settled(y) ==
    {i \in DOMAIN y : i > settings.sample_rate /\ i + settings.sample_rate <= Len(y)}

C23_SteadyState ==
    (filtered # None /\ FarOutside(signal[1].freq)) =>
        /\ ~apply_bandpass_filter_raises(signal[1].samples,
               settings.sample_rate, settings.low_cut_freq,
               settings.high_cut_freq, settings.filter_order)
        /\ Settled(filtered[1]) # {}
        /\ \A i \in Settled(filtered[1]) :
               10 * Abs(filtered[1][i]) < Amplitude(signal[1].samples)

\* a 50 Hz sine of 1 g: below 0.1 g in the middle, above 1 g at an end
C23_Witness ==
    /\ filtered # None
    /\ signal[1].freq = 50
    /\ Amplitude(signal[1].samples) = 1000
    /\ \A i \in Settled(filtered[1]) : Abs(filtered[1][i]) < 100
    /\ Amplitude(filtered[1]) > 1000

\* C23 as stated: the whole output of a sine far outside the band stays
\* below a tenth of the amplitude of the input.  (Violated: the padding and
\* the initial state of filtfilt leave a transient inside the band at both
\* ends of the output.)
C23_StopBand ==
    (filtered # None /\ FarOutside(signal[1].freq)) =>
        10 * Amplitude(filtered[1]) < Amplitude(signal[1].samples)

=============================================================================
